---- MODULE Spec2Model ----
(***************************************************************************)
(* Smart library kiosk (src/code.py): the lending ledger                   *)
(* (issue_book_logic, return_book_logic, calculate_days) and the session   *)
(* state machine of the main loop.                                         *)
(*                                                                         *)
(* A struct_time is modelled as [day, sec]: the day number since the epoch *)
(* and the second within that day.  mktime and localtime convert between   *)
(* that and seconds since the epoch.                                       *)
(***************************************************************************)
EXTENDS Integers, Sequences, FiniteSets, TLC

\* ------------------------------------------------------------------ bounds
\* Most active borrowings (all users together) the ledger runs explore.
MaxLoans == 3
\* Largest backdating, in days, of the issue times drawn for the fine runs.
MaxDaysHeld == 31
\* Most buttons one pass of the main loop reads as pressed.
MaxPressed == 2
\* Most QR codes the decoder reports in one frame.
MaxRows == 1
\* Most books out at once (all users together) in the kiosk runs.
MaxOut == 1

\* --------------------------------------------------------------- variables
VARIABLES
    books_db,       \* isbn -> [title, total, available]
    borrowings,     \* user id -> sequence of [isbn, issue_time]; a key exists iff the list is non-empty
    last_call,      \* the latest ledger call: its arguments, what it found, the tuple it returned
    current_state,  \* 3=ID, 4=PIN, 0=Menu, 1=BookSel, 5=BookConf, 2=Result, 7=QR, 6=SCAN
    current_user,
    current_fine,
    selected_isbn,
    current_mode,
    temp_user_id,
    id_pos, pin_pos, menu_index, book_index, confirm_index,
    id_digits, pin_digits,
    qr_group,       \* the elements of qr_group: the header label, then the tiles appended
    cam,            \* "ok" or "None" (camera initialisation failed)
    flash           \* the transient message the latest tick showed, "" if none

ledger_vars == <<books_db, borrowings, last_call>>
session_vars == <<current_state, current_user, current_fine, selected_isbn,
                  current_mode, temp_user_id, id_pos, pin_pos, menu_index,
                  book_index, confirm_index, id_digits, pin_digits, qr_group,
                  cam, flash>>
vars == <<ledger_vars, session_vars>>

\* ------------------------------------------------------------ testing config
now_time == [day |-> 20490, sec |-> 73800]      \* 2026-02-06 20:30:00
test_delay_seconds == 17 * 86400

\* time.mktime / time.localtime on the [day, sec] form of a struct_time
mktime(t) == t.day * 86400 + t.sec
localtime(s) == [day |-> s \div 86400, sec |-> s % 86400]

\* ---------------------------------------------------------------- database
users_db ==
    "01" :> [name |-> "Amit Sharma", role |-> "Student", password |-> "1234"] @@
    "02" :> [name |-> "Priya Verma", role |-> "Student", password |-> "5678"]

books_db0 ==
    "978-1" :> [title |-> "Python Basics", total |-> 5, available |-> 5] @@
    "978-2" :> [title |-> "Adv. Circuits", total |-> 3, available |-> 3] @@
    "978-3" :> [title |-> "Data Science",  total |-> 4, available |-> 2] @@
    "978-4" :> [title |-> "ESP32 Guide",   total |-> 6, available |-> 6] @@
    "978-5" :> [title |-> "Calculus II",   total |-> 2, available |-> 1]

book_keys == <<"978-1", "978-2", "978-3", "978-4", "978-5">>

borrowings0 == [u \in {} |-> <<>>]

\* ------------------------------------------------------------ logic functions
Max(a, b) == IF a >= b THEN a ELSE b

\* The tuple (header, body, fine) the ledger functions return; the body text is
\* kept as its fixed wording plus the values formatted into it.
Ret(h, text, title, due, n, f) ==
    [h |-> h, b |-> [text |-> text, title |-> title, due |-> due, n |-> n], f |-> f]

calculate_days(issue_time) ==
    LET issue_sec == mktime(issue_time)
        now_sec == mktime(now_time) + test_delay_seconds
    IN  (now_sec - issue_sec) \div 86400

\* book['available'] > 0
has_copies_off_by_one(book) == book.available >= 0
has_copies(book) == book.available > 0

\* book['available'] -= 1
take_copy_forgotten(bks, isbn) == bks
take_copy(bks, isbn) == [bks EXCEPT ![isbn].available = @ - 1]

\* if user_id not in borrowings: borrowings[user_id] = []
\* borrowings[user_id].append({"isbn": isbn, "issue_time": issue_time})
add_borrowing_in_front(brw, user_id, isbn, issue_time) ==
    LET b0 == IF user_id \in DOMAIN brw THEN brw ELSE brw @@ (user_id :> <<>>)
    IN  [b0 EXCEPT ![user_id] = <<[isbn |-> isbn, issue_time |-> issue_time]>> \o @]
add_borrowing(brw, user_id, isbn, issue_time) ==
    LET b0 == IF user_id \in DOMAIN brw THEN brw ELSE brw @@ (user_id :> <<>>)
    IN  [b0 EXCEPT ![user_id] = Append(@, [isbn |-> isbn, issue_time |-> issue_time])]

\* f"{due_time.tm_mday}/{due_time.tm_mon}/{due_time.tm_year}": the date, without
\* the time of day
due_str(due_time) == due_time.day

issue_book_logic(user_id, isbn) ==
    IF user_id \notin DOMAIN users_db THEN
        [books |-> books_db, borrowings |-> borrowings,
         ret |-> Ret("ERROR", "User ID Not Found", "", 0, 0, 0)]
    ELSE IF isbn \notin DOMAIN books_db THEN
        [books |-> books_db, borrowings |-> borrowings,
         ret |-> Ret("ERROR", "Book Not Found", "", 0, 0, 0)]
    ELSE IF has_copies(books_db[isbn]) THEN
        LET books1 == take_copy(books_db, isbn)
            issue_time == now_time
            brw1 == add_borrowing(borrowings, user_id, isbn, issue_time)
            due_time == localtime(mktime(issue_time) + 15 * 86400)
        IN  [books |-> books1, borrowings |-> brw1,
             ret |-> Ret("SUCCESS!", "Issued", books1[isbn].title,
                         due_str(due_time), books1[isbn].available, 0)]
    ELSE
        [books |-> books_db, borrowings |-> borrowings,
         ret |-> Ret("OOPS!", "No copies left for this book.", "", 0, 0, 0)]

\* for borrowing in borrowings[user_id]: if borrowing["isbn"] == isbn:
\* the index of the first entry of `list` for isbn, 0 if there is none
first_match_any_book(list, isbn) == IF Len(list) > 0 THEN 1 ELSE 0
first_match(list, isbn) ==
    IF \E i \in 1..Len(list) : list[i].isbn = isbn
    THEN CHOOSE i \in 1..Len(list) :
            /\ list[i].isbn = isbn
            /\ \A j \in 1..(i - 1) : list[j].isbn # isbn
    ELSE 0

\* delay = days - 15; fine = max(0, delay) * 15
late_fine_from_day_15(days) == LET delay == days - 14 IN Max(0, delay) * 15
late_fine(days) == LET delay == days - 15 IN Max(0, delay) * 15

\* book['available'] += 1
give_back_copy_twice(bks, isbn) == [bks EXCEPT ![isbn].available = @ + 2]
give_back_copy(bks, isbn) == [bks EXCEPT ![isbn].available = @ + 1]

\* list.remove(x): drops the first element equal to x
list_remove(list, x) ==
    LET i == CHOOSE k \in 1..Len(list) :
                 /\ list[k] = x
                 /\ \A j \in 1..(k - 1) : list[j] # x
    IN  SubSeq(list, 1, i - 1) \o SubSeq(list, i + 1, Len(list))

\* borrowings[user_id].remove(borrowing)
\* if not borrowings[user_id]: del borrowings[user_id]
remove_borrowing_last(brw, user_id, borrowing) ==
    LET rest == SubSeq(brw[user_id], 1, Len(brw[user_id]) - 1)
    IN  IF rest = <<>>
        THEN [u \in DOMAIN brw \ {user_id} |-> brw[u]]
        ELSE [brw EXCEPT ![user_id] = rest]
remove_borrowing(brw, user_id, borrowing) ==
    LET rest == list_remove(brw[user_id], borrowing)
    IN  IF rest = <<>>
        THEN [u \in DOMAIN brw \ {user_id} |-> brw[u]]
        ELSE [brw EXCEPT ![user_id] = rest]

return_book_logic(user_id, isbn) ==
    IF isbn \notin DOMAIN books_db THEN
        [books |-> books_db, borrowings |-> borrowings,
         ret |-> Ret("ERROR", "Book Not Found", "", 0, 0, 0)]
    ELSE IF user_id \in DOMAIN borrowings THEN
        LET i == first_match(borrowings[user_id], isbn) IN
        IF i # 0 THEN
            LET borrowing == borrowings[user_id][i]
                days == calculate_days(borrowing.issue_time)
                fine == late_fine(days)
                books1 == give_back_copy(books_db, isbn)
                brw1 == remove_borrowing(borrowings, user_id, borrowing)
            IN  [books |-> books1, borrowings |-> brw1,
                 ret |-> Ret("RETURNED", IF fine > 0 THEN "Fine" ELSE "No Fine",
                             books1[isbn].title, 0, books1[isbn].available, fine)]
        ELSE
            [books |-> books_db, borrowings |-> borrowings,
             ret |-> Ret("ERROR", "You don't have this book.", "", 0, 0, 0)]
    ELSE
        [books |-> books_db, borrowings |-> borrowings,
         ret |-> Ret("ERROR", "No borrowings.", "", 0, 0, 0)]

\* ------------------------------------------------------------------ initial
\* last_call before any call has been made
no_call == [op |-> "none", user_id |-> "", isbn |-> "", available |-> 0,
            held |-> <<>>, ret |-> Ret("", "", "", 0, 0, 0)]

InitLedger ==
    /\ books_db = books_db0
    /\ borrowings = borrowings0
    /\ last_call = no_call

InitSession ==
    /\ current_state = 3
    /\ current_user = ""
    /\ current_fine = 0
    /\ selected_isbn = ""
    /\ current_mode = ""
    /\ temp_user_id = ""
    /\ id_pos = 0 /\ pin_pos = 0 /\ menu_index = 0 /\ book_index = 0
    /\ confirm_index = 0
    /\ id_digits = <<"0", "0">>
    /\ pin_digits = <<"0", "0", "0", "0">>
    /\ qr_group = <<[kind |-> "label", am |-> 0]>>
    /\ cam \in {"ok", "None"}
    /\ flash = ""

Init == InitLedger /\ InitSession

\* ------------------------------------------------- the ledger called directly
\* The arguments the ledger runs call with: the provisioned users and books,
\* and one identifier of each kind that is in no database.
CallUsers == DOMAIN users_db \cup {"03"}
CallBooks == DOMAIN books_db0 \cup {"978-9"}

Loans(brw) ==
    LET F[S \in SUBSET DOMAIN brw] ==
            IF S = {} THEN 0
            ELSE LET u == CHOOSE x \in S : TRUE IN Len(brw[u]) + F[S \ {u}]
    IN  F[DOMAIN brw]

\* The call op(user_id, isbn) with outcome r: the ledger becomes r's, and
\* last_call keeps the arguments, the tuple returned, and what the call found:
\* that book's available count (0 for an unknown book) and that user's list.
Held(brw, user_id) == IF user_id \in DOMAIN brw THEN brw[user_id] ELSE <<>>
Ledger(op, user_id, isbn, r) ==
    /\ books_db' = r.books
    /\ borrowings' = r.borrowings
    /\ last_call' = [op |-> op, user_id |-> user_id, isbn |-> isbn,
                     available |-> IF isbn \in DOMAIN books_db
                                   THEN books_db[isbn].available ELSE 0,
                     held |-> Held(borrowings, user_id),
                     ret |-> r.ret]

Issue(user_id, isbn) ==
    /\ Loans(borrowings) < MaxLoans
    /\ Ledger("issue", user_id, isbn, issue_book_logic(user_id, isbn))
    /\ UNCHANGED session_vars

Return(user_id, isbn) ==
    /\ Ledger("return", user_id, isbn, return_book_logic(user_id, isbn))
    /\ UNCHANGED session_vars

NextLedger ==
    \E user_id \in CallUsers, isbn \in CallBooks :
        \/ Issue(user_id, isbn)
        \/ Return(user_id, isbn)

SpecLedger == Init /\ [][NextLedger]_vars

\* ------------------------------------------------------------ the main loop
\* One action per state of the main loop: one pass of the `while True` body
\* with current_state at that value.  B is the set of buttons whose `.value`
\* the pass reads as pressed (active low); the reads of one pass are
\* independent, since the pass sleeps between them.
Buttons == {"up", "down", "left", "right", "ok"}
Presses == {B \in SUBSET Buttons : Cardinality(B) <= MaxPressed}

\* str(n) and int(text) on one decimal digit; ''.join(d.text for d in digits)
DigitText == <<"0", "1", "2", "3", "4", "5", "6", "7", "8", "9">>
str(n) == DigitText[n + 1]
IntOfText == [text \in {DigitText[i] : i \in 1..10} |-> CHOOSE n \in 0..9 : DigitText[n + 1] = text]
int(text) == IntOfText[text]
join(digits) ==
    LET J[i \in 0..Len(digits)] == IF i = 0 THEN "" ELSE J[i - 1] \o digits[i]
    IN  J[Len(digits)]

\* if not btn_left.value and pos > 0: pos -= 1
\* if not btn_right.value and pos < last: pos += 1
move_cursor_wrapping(B, pos, last) ==
    LET p1 == IF "left" \in B THEN (pos - 1) % (last + 1) ELSE pos
    IN  IF "right" \in B THEN (p1 + 1) % (last + 1) ELSE p1
move_cursor(B, pos, last) ==
    LET p1 == IF "left" \in B /\ pos > 0 THEN pos - 1 ELSE pos
    IN  IF "right" \in B /\ p1 < last THEN p1 + 1 ELSE p1

\* if not btn_up.value: digits[pos].text = str((int(digits[pos].text) + 1) % 10)
\* if not btn_down.value: digits[pos].text = str((int(digits[pos].text) - 1) % 10)
turn_digit(B, digits, pos) ==
    LET d1 == IF "up" \in B
              THEN [digits EXCEPT ![pos + 1] = str((int(@) + 1) % 10)] ELSE digits
    IN  IF "down" \in B
        THEN [d1 EXCEPT ![pos + 1] = str((int(@) - 1) % 10)] ELSE d1

\* user_id in users_db
id_known_any(user_id) == TRUE
id_known(user_id) == user_id \in DOMAIN users_db

\* entered == users_db[temp_user_id]["password"]
pin_matches_prefix(entered, user_id) ==
    SubSeq(entered, 1, 1) = SubSeq(users_db[user_id].password, 1, 1)
pin_matches(entered, user_id) == entered = users_db[user_id].password

\* STATE 3: enter the user id
EnterID(B) ==
    /\ current_state = 3
    /\ LET pos == move_cursor(B, id_pos, 1)
           digits == turn_digit(B, id_digits, pos)
           user_id == join(digits)
       IN  /\ id_pos' = pos
           /\ id_digits' = digits
           /\ IF "ok" \in B /\ id_known(user_id)
              THEN /\ temp_user_id' = user_id
                   /\ pin_pos' = 0
                   /\ current_state' = 4
                   /\ pin_digits' = [i \in 1..Len(pin_digits) |-> "0"]
                   /\ flash' = ""
              ELSE /\ flash' = IF "ok" \in B THEN "Invalid ID" ELSE ""
                   /\ UNCHANGED <<temp_user_id, pin_pos, current_state, pin_digits>>
    /\ UNCHANGED <<current_user, current_fine, selected_isbn, current_mode,
                   menu_index, book_index, confirm_index, qr_group, cam>>
    /\ UNCHANGED ledger_vars

\* STATE 4: enter the PIN
EnterPIN(B) ==
    /\ current_state = 4
    /\ LET pos == move_cursor(B, pin_pos, 3)
           digits == turn_digit(B, pin_digits, pos)
           entered == join(digits)
       IN  IF "ok" \in B
           THEN IF pin_matches(entered, temp_user_id)
                THEN /\ current_user' = temp_user_id
                     /\ flash' = "Hello"
                     /\ menu_index' = 0
                     /\ current_state' = 0
                     /\ pin_pos' = pos
                     /\ pin_digits' = digits
                ELSE /\ flash' = "Wrong PIN"
                     /\ pin_digits' = [i \in 1..Len(pin_digits) |-> "0"]
                     /\ pin_pos' = 0
                     /\ UNCHANGED <<current_user, menu_index, current_state>>
           ELSE /\ pin_pos' = pos
                /\ pin_digits' = digits
                /\ flash' = ""
                /\ UNCHANGED <<current_user, menu_index, current_state>>
    /\ UNCHANGED <<current_fine, selected_isbn, current_mode, temp_user_id,
                   id_pos, id_digits, book_index, confirm_index, qr_group, cam>>
    /\ UNCHANGED ledger_vars

\* if not btn_up.value: index = (index - 1) % n
\* if not btn_down.value: index = (index + 1) % n
cycle_index_clamped(B, index, n) ==
    LET i1 == IF "up" \in B /\ index > 0 THEN index - 1 ELSE index
    IN  IF "down" \in B /\ i1 < n - 1 THEN i1 + 1 ELSE i1
cycle_index(B, index, n) ==
    LET i1 == IF "up" \in B THEN (index - 1) % n ELSE index
    IN  IF "down" \in B THEN (i1 + 1) % n ELSE i1

\* STATE 0: main menu
Menu(B) ==
    /\ current_state = 0
    /\ LET index == cycle_index(B, menu_index, 3)
       IN  /\ menu_index' = index
           /\ IF "ok" \in B
              THEN IF index = 2
                   THEN /\ current_user' = ""
                        /\ current_state' = 3
                        /\ id_digits' = [i \in 1..Len(id_digits) |-> "0"]
                        /\ UNCHANGED current_mode
                   ELSE /\ current_mode' = IF index = 0 THEN "ISSUE" ELSE "RETURN"
                        /\ current_state' = 6
                        /\ UNCHANGED <<current_user, id_digits>>
              ELSE UNCHANGED <<current_user, current_state, id_digits, current_mode>>
    /\ flash' = ""
    /\ UNCHANGED <<current_fine, selected_isbn, temp_user_id, id_pos, pin_pos,
                   book_index, confirm_index, pin_digits, qr_group, cam>>
    /\ UNCHANGED ledger_vars

\* ------------------------------------------------------------------ the scan
\* What one pass of perform_scan's loop meets: whether cam.take raises, the
\* payloads qrdecoder.decode yields for the frame, and whether btn_left reads
\* as pressed at the end of the pass.  A payload is its text and whether its
\* bytes are valid UTF-8.
Payloads ==
    {[raw |-> isbn, utf8 |-> TRUE] : isbn \in DOMAIN books_db0}
        \cup {[raw |-> "978-9", utf8 |-> TRUE], [raw |-> "", utf8 |-> TRUE],
              [raw |-> "978-1", utf8 |-> FALSE]}
Rows == UNION {[1..n -> Payloads] : n \in 0..MaxRows}
Frames == [raises : BOOLEAN, rows : Rows, left : BOOLEAN]

\* try: found_data = payload.decode("utf-8")   except: found_data = str(payload)
\* str of a bytes object is its repr: b'...'
decode_payload_ignoring_errors(payload) == payload.raw
decode_payload(payload) ==
    IF payload.utf8 THEN payload.raw ELSE "b'" \o payload.raw \o "'"

\* One pass of the loop of perform_scan: "" stands for None (both are falsy
\* and the caller tests only `if scanned_code`).  The result is
\* [done, found_data]: whether the loop ends with this pass.
scan_pass_deaf_to_left(frame) ==
    IF frame.raises THEN [done |-> TRUE, found_data |-> ""]
    ELSE LET found_data == IF frame.rows = <<>> THEN ""
                           ELSE decode_payload(frame.rows[Len(frame.rows)])
         IN  [done |-> found_data # "", found_data |-> found_data]
scan_pass(frame) ==
    IF frame.raises THEN [done |-> TRUE, found_data |-> ""]
    ELSE LET found_data == IF frame.rows = <<>> THEN ""
                           ELSE decode_payload(frame.rows[Len(frame.rows)])
         IN  IF found_data # "" THEN [done |-> TRUE, found_data |-> found_data]
             ELSE IF frame.left THEN [done |-> TRUE, found_data |-> ""]
             ELSE [done |-> FALSE, found_data |-> ""]

\* scanned_code in books_db
code_known_any(scanned_code) == TRUE
code_known(scanned_code) == scanned_code \in DOMAIN books_db

\* The rest of the pass of STATE 6 once perform_scan has returned scanned_code.
AfterScan(scanned_code, message) ==
    IF scanned_code # ""
    THEN IF code_known(scanned_code)
         THEN /\ selected_isbn' = scanned_code
              /\ confirm_index' = 0
              /\ current_state' = 5
              /\ flash' = message
              /\ UNCHANGED book_index
         ELSE /\ flash' = "Book Not In Database"
              /\ current_state' = 0
              /\ UNCHANGED <<selected_isbn, confirm_index, book_index>>
    ELSE /\ book_index' = 0
         /\ current_state' = 1
         /\ flash' = message
         /\ UNCHANGED <<selected_isbn, confirm_index>>

\* STATE 6 with no camera: perform_scan returns None at once.
ScanNoCamera ==
    /\ current_state = 6
    /\ cam = "None"
    /\ AfterScan("", "Camera Failed!")
    /\ UNCHANGED <<current_user, current_fine, current_mode, temp_user_id, id_pos,
                   pin_pos, menu_index, id_digits, pin_digits, qr_group, cam>>
    /\ UNCHANGED ledger_vars

\* STATE 6 with a camera: one pass of the loop of perform_scan; the pass that
\* ends the loop is followed at once by the rest of the pass of the main loop.
Scan(frame) ==
    /\ current_state = 6
    /\ cam # "None"
    /\ LET pass == scan_pass(frame)
       IN  IF pass.done
           THEN /\ AfterScan(pass.found_data, "")
                /\ UNCHANGED <<current_user, current_fine, current_mode, temp_user_id,
                               id_pos, pin_pos, menu_index, id_digits, pin_digits,
                               qr_group, cam>>
           ELSE UNCHANGED session_vars
    /\ UNCHANGED ledger_vars

\* STATE 1: manual selection
ManualSelect(B) ==
    /\ current_state = 1
    /\ LET index == cycle_index(B, book_index, 5)
       IN  /\ book_index' = index
           /\ IF "ok" \in B
              THEN /\ selected_isbn' = book_keys[index + 1]
                   /\ confirm_index' = 0
                   /\ current_state' = 5
              ELSE /\ current_state' = IF "left" \in B THEN 0 ELSE current_state
                   /\ UNCHANGED <<selected_isbn, confirm_index>>
    /\ flash' = ""
    /\ UNCHANGED <<current_user, current_fine, current_mode, temp_user_id, id_pos,
                   pin_pos, menu_index, id_digits, pin_digits, qr_group, cam>>
    /\ UNCHANGED ledger_vars

\* if not btn_up.value: confirm_index = 0
\* if not btn_down.value: confirm_index = 1
pick_yes_no(B, index) ==
    LET i1 == IF "up" \in B THEN 0 ELSE index
    IN  IF "down" \in B THEN 1 ELSE i1

\* if current_mode == "ISSUE": h, b, f = issue_book_logic(current_user, selected_isbn)
\* else: h, b, f = return_book_logic(current_user, selected_isbn)
mode_call_swapped(mode, user_id, isbn) ==
    IF mode = "ISSUE" THEN return_book_logic(user_id, isbn)
    ELSE issue_book_logic(user_id, isbn)
mode_call(mode, user_id, isbn) ==
    IF mode = "ISSUE" THEN issue_book_logic(user_id, isbn)
    ELSE return_book_logic(user_id, isbn)

\* if confirm_index == 0:  # YES
yes_selected_always(index) == TRUE
yes_selected(index) == index = 0

\* STATE 5: book confirmation
BookConfirm(B) ==
    /\ current_state = 5
    /\ LET index == pick_yes_no(B, confirm_index)
       IN  /\ confirm_index' = index
           /\ IF "ok" \in B
              THEN IF yes_selected(index)
                   THEN /\ current_mode = "ISSUE" => Loans(borrowings) < MaxLoans
                        /\ LET r == mode_call(current_mode, current_user, selected_isbn)
                           IN  /\ Ledger(IF current_mode = "ISSUE" THEN "issue" ELSE "return",
                                         current_user, selected_isbn, r)
                               /\ current_fine' = r.ret.f
                        /\ current_state' = 2
                   ELSE /\ current_state' = 0
                        /\ UNCHANGED <<ledger_vars, current_fine>>
              ELSE UNCHANGED <<ledger_vars, current_fine, current_state>>
    /\ flash' = ""
    /\ UNCHANGED <<current_user, selected_isbn, current_mode, temp_user_id, id_pos,
                   pin_pos, menu_index, book_index, id_digits, pin_digits, qr_group, cam>>

\* generate_qr(fine): the tile for the payment URI with am={fine}
generate_qr(fine) == [kind |-> "tile", am |-> fine]

\* if current_mode == "RETURN" and current_fine > 0:
fine_due_from_zero(mode, fine) == mode = "RETURN" /\ fine >= 0
fine_due(mode, fine) == mode = "RETURN" /\ fine > 0

\* STATE 2: result
Result(B) ==
    /\ current_state = 2
    /\ IF "ok" \in B
       THEN IF fine_due(current_mode, current_fine)
            THEN /\ qr_group' = Append(qr_group, generate_qr(current_fine))
                 /\ current_state' = 7
            ELSE /\ current_state' = 0
                 /\ UNCHANGED qr_group
       ELSE UNCHANGED <<qr_group, current_state>>
    /\ flash' = ""
    /\ UNCHANGED <<current_user, current_fine, selected_isbn, current_mode,
                   temp_user_id, id_pos, pin_pos, menu_index, book_index,
                   confirm_index, id_digits, pin_digits, cam>>
    /\ UNCHANGED ledger_vars

\* STATE 7: QR pay display
QrPay(B) ==
    /\ current_state = 7
    /\ IF "ok" \in B
       THEN /\ qr_group' = SubSeq(qr_group, 1, Len(qr_group) - 1)
            /\ current_state' = 0
       ELSE UNCHANGED <<qr_group, current_state>>
    /\ flash' = ""
    /\ UNCHANGED <<current_user, current_fine, selected_isbn, current_mode,
                   temp_user_id, id_pos, pin_pos, menu_index, book_index,
                   confirm_index, id_digits, pin_digits, cam>>
    /\ UNCHANGED ledger_vars

\* The values one pass of the main loop assigns to current_state, in the order
\* it assigns them, when it reads the buttons of B as pressed (on states 3, 4,
\* 0, 1, 5, 2 and 7: the pass of state 6 reads the scan instead).
state_writes(B) ==
    LET when(c, v) == IF c THEN <<v>> ELSE <<>>
        ok == "ok" \in B
    IN  CASE current_state = 3 ->
               when(ok /\ id_known(join(turn_digit(B, id_digits,
                                                   move_cursor(B, id_pos, 1)))), 4)
          [] current_state = 4 ->
               when(ok /\ pin_matches(join(turn_digit(B, pin_digits,
                                                      move_cursor(B, pin_pos, 3))),
                                      temp_user_id), 0)
          [] current_state = 0 ->
               when(ok, IF cycle_index(B, menu_index, 3) = 2 THEN 3 ELSE 6)
          [] current_state = 1 ->
               when("left" \in B, 0) \o when(ok, 5)
          [] current_state = 5 ->
               when(ok, IF yes_selected(pick_yes_no(B, confirm_index)) THEN 2 ELSE 0)
          [] current_state = 2 ->
               when(ok, IF fine_due(current_mode, current_fine) THEN 7 ELSE 0)
          [] current_state = 7 ->
               when(ok, 0)
          [] OTHER -> <<>>

\* One pass of the main loop, whatever the buttons read.
Next ==
    \/ \E B \in Presses :
          \/ EnterID(B)
          \/ EnterPIN(B)
          \/ Menu(B)
          \/ ManualSelect(B)
          \/ BookConfirm(B)
          \/ Result(B)
          \/ QrPay(B)
    \/ ScanNoCamera
    \/ \E frame \in Frames : Scan(frame)

\* The whole program.  Its state space is the product of the login digits, the
\* session's cursors and the ledger, so the runs below each take a part of it.
Spec == Init /\ [][Next]_vars

\* ---------------------------------------------------- the login screens alone
\* The main loop with a patron who logs in and out and starts no transaction:
\* in the menu, Ok is pressed only on Logout.
OnlyLogout(B) == "ok" \in B => cycle_index(B, menu_index, 3) = 2

NextAuth ==
    \E B \in Presses :
        \/ EnterID(B)
        \/ EnterPIN(B)
        \/ OnlyLogout(B) /\ Menu(B)

\* The camera plays no part on these screens: the runs take the boot at which
\* it came up.
InitAuth == Init /\ cam = "ok"

SpecAuth == InitAuth /\ [][NextAuth]_vars

\* ------------------------------------------------------- the kiosk at work
\* The whole main loop, with a patron who types a provisioned identifier and
\* its PIN without a slip: on the login screens one button is pressed per
\* pass, Up while the digit under the cursor is below the one wanted, Right
\* once it is reached, and Ok at any time (too early, it is refused).  After
\* the login every button combination and every frame is open, and the patron
\* logs out and in again at will.  The runs keep at most MaxOut books out at
\* once.
Patrons == {"01"}

Types(B, digits, pos, wanted) ==
    \/ /\ B = {"up"}
       /\ join(SubSeq(digits, 1, pos)) = SubSeq(wanted, 1, pos)
       /\ int(digits[pos + 1]) < int(SubSeq(wanted, pos + 1, pos + 1))
    \/ /\ B = {"right"}
       /\ pos + 1 < Len(digits)
       /\ join(SubSeq(digits, 1, pos + 1)) = SubSeq(wanted, 1, pos + 1)
    \/ B = {"ok"}

Kiosk(frames) ==
    \/ \E B \in Presses :
          \/ /\ current_state = 3
             /\ \E wanted \in Patrons : Types(B, id_digits, id_pos, wanted)
             /\ EnterID(B)
          \/ /\ current_state = 4
             /\ Types(B, pin_digits, pin_pos, users_db[temp_user_id].password)
             /\ EnterPIN(B)
          \/ Menu(B)
          \/ ManualSelect(B)
          \/ BookConfirm(B) /\ Loans(borrowings') <= MaxOut
          \/ Result(B)
          \/ QrPay(B)
    \/ ScanNoCamera
    \/ \E frame \in frames : Scan(frame)

NextKiosk == Kiosk(Frames)

SpecKiosk == Init /\ [][NextKiosk]_vars

\* The kiosk in a setting where a scan, once started, does meet one of the
\* events that end it: a code in view, Left pressed, or a capture that fails
\* (with no camera, perform_scan returns at once).
EndOfScan ==
    \/ ScanNoCamera
    \/ \E frame \in Frames : scan_pass(frame).done /\ Scan(frame)

SpecKioskFair == SpecKiosk /\ WF_vars(EndOfScan)

\* The kiosk on a day when every code held up to the camera is malformed: the
\* payloads the decoder yields are not valid UTF-8.
BadFrames == {frame \in Frames : \A i \in 1..Len(frame.rows) : ~frame.rows[i].utf8}

NextBadCode == Kiosk(BadFrames)

SpecBadCode == Init /\ [][NextBadCode]_vars

\* ------------------------------------------ the fine, over drawn issue times
\* Issue times up to MaxDaysHeld days before the time return_book_logic takes as
\* now, at the start of a day, at now's time of day and at the end of a day.
IssueTimes ==
    LET today == localtime(mktime(now_time) + test_delay_seconds).day
    IN  {[day |-> today - d, sec |-> s] : d \in 0..MaxDaysHeld, s \in {0, now_time.sec, 86399}}

InitFine ==
    /\ \E user_id \in DOMAIN users_db, isbn \in DOMAIN books_db0, t \in IssueTimes :
          /\ books_db = take_copy(books_db0, isbn)
          /\ borrowings = add_borrowing(borrowings0, user_id, isbn, t)
    /\ last_call = no_call
    /\ InitSession

NextFine ==
    \E user_id \in CallUsers, isbn \in CallBooks : Return(user_id, isbn)

SpecFine == InitFine /\ [][NextFine]_vars

\* ------------------------------------------------------------------ claims
Count(list, isbn) == Cardinality({i \in 1..Len(list) : list[i].isbn = isbn})
FirstOf(list, isbn) ==
    CHOOSE i \in 1..Len(list) :
        /\ list[i].isbn = isbn
        /\ \A j \in 1..(i - 1) : list[j].isbn # isbn
WithoutIndex(list, i) == [k \in 1..(Len(list) - 1) |-> IF k < i THEN list[k] ELSE list[k + 1]]
\* The step is a ledger call op(last_call'.user_id, last_call'.isbn).  (A call
\* that changes last_call in nothing is a failed call repeated: it changes
\* nothing at all.)
Called(op) == last_call' # last_call /\ last_call'.op = op
KnownArgs(call) == call.user_id \in {"01", "02"} /\ call.isbn \in DOMAIN books_db0
Issued == last_call.op = "issue"
Returned == last_call.op = "return"

\* C1: after any sequence of Issue and Return calls, every book has
\* 0 <= available <= total.
C1_AvailableWithinTotal ==
    \A isbn \in DOMAIN books_db :
        0 <= books_db[isbn].available /\ books_db[isbn].available <= books_db[isbn].total

\* C1 witness: one book is down to 0 copies while a Return has just brought
\* another back to its total.
C1_Witness ==
    /\ \E isbn \in DOMAIN books_db : books_db[isbn].available = 0
    /\ Returned /\ last_call.ret.h = "RETURNED"
    /\ books_db[last_call.isbn].available = books_db[last_call.isbn].total

\* C2: Issue for a known user and a known book with no copy available returns
\* "No copies left" and changes neither a book nor a borrowing.
C2_NoCopiesLeavesLedger ==
    [][ ( /\ Called("issue") /\ KnownArgs(last_call')
          /\ books_db[last_call'.isbn].available = 0 )
        => /\ last_call'.ret.h = "OOPS!"
           /\ last_call'.ret.b.text = "No copies left for this book."
           /\ last_call'.ret.f = 0
           /\ UNCHANGED <<books_db, borrowings>> ]_vars

\* C2 witness: such a call was made while some user had borrowings.
C2_Witness ==
    /\ Issued /\ KnownArgs(last_call) /\ last_call.available = 0
    /\ last_call.ret.h = "OOPS!"
    /\ DOMAIN borrowings # {}

\* C3 (as claimed): a successful Issue(u, b) directly followed by Return(u, b)
\* returns fine 0 and puts available(b) and u's borrowings back to what they
\* were before the Issue.
C3_IssueThenReturnIsFree ==
    [][ ( /\ Issued /\ last_call.ret.h = "SUCCESS!"
          /\ Called("return")
          /\ last_call'.user_id = last_call.user_id
          /\ last_call'.isbn = last_call.isbn )
        => /\ last_call'.ret.h = "RETURNED"
           /\ last_call'.ret.f = 0
           /\ books_db'[last_call.isbn].available = last_call.available
           /\ Held(borrowings', last_call.user_id) = last_call.held ]_vars

\* C4: a successful Return's fine is max(0, daysHeld - 15) * 15, where daysHeld
\* is the whole number of days from the issue time to the time the return takes
\* as now: 0 up to and including 15 days, 15 at 16, 75 at 20, 225 at 30, never
\* negative.
C4_FineFormula ==
    [][ (Called("return") /\ last_call'.ret.h = "RETURNED") =>
          LET list == borrowings[last_call'.user_id]
              entry == list[FirstOf(list, last_call'.isbn)]
              elapsed == (mktime(now_time) + test_delay_seconds) - mktime(entry.issue_time)
              fine == last_call'.ret.f
          IN  \E d \in -1..(MaxDaysHeld + 1) :
                  /\ d * 86400 <= elapsed /\ elapsed < (d + 1) * 86400
                  /\ fine >= 0
                  /\ d <= 15 => fine = 0
                  /\ d > 15 => fine = (d - 15) * 15
                  /\ d = 16 => fine = 15
                  /\ d = 20 => fine = 75
                  /\ d = 30 => fine = 225 ]_vars

\* C4 witness: a book returned exactly 15 days and 0 seconds after its issue:
\* the last instant that costs nothing.
C4_Witness ==
    /\ Returned /\ last_call.ret.h = "RETURNED" /\ last_call.ret.f = 0
    /\ \E i \in 1..Len(last_call.held) :
          mktime(last_call.held[i].issue_time) + 15 * 86400
              = mktime(now_time) + test_delay_seconds

\* C5: Issue for a known user and a known book with a copy available succeeds,
\* takes exactly one copy of that book, appends one borrowing (that book, issued
\* at the current time) at the end of that user's list, reports the new
\* available count, and changes nothing else.
C5_IssueEffect ==
    [][ ( /\ Called("issue") /\ KnownArgs(last_call')
          /\ books_db[last_call'.isbn].available > 0 ) =>
          LET u == last_call'.user_id
              b == last_call'.isbn
          IN  /\ last_call'.ret.h = "SUCCESS!"
              /\ last_call'.ret.f = 0
              /\ books_db' = [books_db EXCEPT ![b].available = @ - 1]
              /\ last_call'.ret.b.n = books_db'[b].available
              /\ last_call'.ret.b.title = books_db0[b].title
              /\ DOMAIN borrowings' = DOMAIN borrowings \cup {u}
              /\ borrowings'[u] = Append(Held(borrowings, u),
                                         [isbn |-> b, issue_time |-> now_time])
              /\ \A v \in DOMAIN borrowings' \ {u} : borrowings'[v] = borrowings[v] ]_vars

\* C5 witness: a successful Issue to a user who already held another book,
\* while another user held borrowings too.
C5_Witness ==
    /\ Issued /\ last_call.ret.h = "SUCCESS!"
    /\ Len(borrowings[last_call.user_id]) >= 2
    /\ borrowings[last_call.user_id][1].isbn # last_call.isbn
    /\ DOMAIN borrowings # {last_call.user_id}

\* C6: a successful Return gives exactly one copy back to that book and removes
\* exactly the first entry for that book from that user's list; the user's
\* other entries keep their order, and no other user or book changes.
C6_ReturnEffect ==
    [][ (Called("return") /\ last_call'.ret.h = "RETURNED") =>
          LET u == last_call'.user_id
              b == last_call'.isbn
              list == Held(borrowings, u)
              rest == WithoutIndex(list, FirstOf(list, b))
          IN  /\ Count(list, b) >= 1
              /\ books_db' = [books_db EXCEPT ![b].available = @ + 1]
              /\ last_call'.ret.b.n = books_db'[b].available
              /\ Held(borrowings', u) = rest
              /\ DOMAIN borrowings' = IF rest = <<>> THEN DOMAIN borrowings \ {u}
                                                     ELSE DOMAIN borrowings
              /\ \A v \in DOMAIN borrowings \ {u} :
                    v \in DOMAIN borrowings' /\ borrowings'[v] = borrowings[v] ]_vars

\* C6 witness: the user held three entries, two of the returned book with
\* another book first, and keeps that other book and one entry of the
\* returned book.
C6_Witness ==
    /\ Returned /\ last_call.ret.h = "RETURNED"
    /\ Len(last_call.held) = 3
    /\ last_call.held[1].isbn # last_call.isbn
    /\ Count(last_call.held, last_call.isbn) = 2
    /\ Count(Held(borrowings, last_call.user_id), last_call.isbn) = 1

\* C7: Return of a known book by a user who holds no borrowing of it never
\* succeeds and leaves the ledger unchanged; the answer is "No borrowings."
\* exactly when the user holds nothing, "You don't have this book." exactly
\* when the user holds only other books.
C7_ReturnWithoutBorrowing ==
    [][ ( /\ Called("return") /\ last_call'.isbn \in DOMAIN books_db0
          /\ Count(Held(borrowings, last_call'.user_id), last_call'.isbn) = 0 )
        => /\ last_call'.ret.h = "ERROR"
           /\ last_call'.ret.f = 0
           /\ UNCHANGED <<books_db, borrowings>>
           /\ last_call'.ret.b.text \in {"No borrowings.", "You don't have this book."}
           /\ last_call'.ret.b.text = "No borrowings."
                 <=> Held(borrowings, last_call'.user_id) = <<>> ]_vars

\* C7 witness: the user held only another book while another user held the
\* book asked for.
C7_Witness ==
    /\ Returned /\ last_call.ret.b.text = "You don't have this book."
    /\ \E v \in DOMAIN borrowings \ {last_call.user_id} :
          Count(borrowings[v], last_call.isbn) > 0

\* C8 (as claimed): no user ever holds two borrowings with the same book
\* identifier.
C8_AtMostOnePerBook ==
    \A user_id \in DOMAIN borrowings, isbn \in DOMAIN books_db0 :
        Count(borrowings[user_id], isbn) <= 1

\* C8 (amended): a user can hold several borrowings of one book identifier,
\* but never more of them than the copies the book was provisioned with as
\* available.
C8_AtMostProvisionedPerBook ==
    \A user_id \in DOMAIN borrowings, isbn \in DOMAIN books_db0 :
        Count(borrowings[user_id], isbn) <= books_db0[isbn].available

\* C8 witness: a user holds two borrowings of the same book.
C8_Witness ==
    \E user_id \in DOMAIN borrowings, isbn \in DOMAIN books_db0 :
        Count(borrowings[user_id], isbn) = 2

\* C9: Ok in EnterPIN compares the entered digits with the stored PIN of the
\* identifier confirmed in EnterID.  On a match the authenticated user becomes
\* exactly that identifier and the session is in Menu at index 0; on a mismatch
\* the session stays in EnterPIN, unauthenticated, with the digits back at 0000
\* and the cursor at 0.  Whatever else is pressed in the same pass, EnterPIN is
\* left only by such a match (the digits are kept on a match, so the digits
\* after the step are the ones compared), and nobody is authenticated while the
\* session stays in it.
C9_PinConfirm ==
    [][ LET stored == users_db[temp_user_id].password
            granted == /\ current_user' = temp_user_id
                       /\ current_state' = 0
                       /\ menu_index' = 0
            refused == /\ current_state' = 4
                       /\ current_user' = ""
                       /\ pin_digits' = <<"0", "0", "0", "0">>
                       /\ pin_pos' = 0
        IN  /\ current_state = 4 => temp_user_id \in {"01", "02"}
            /\ EnterPIN({"ok"}) =>
                  IF join(pin_digits) = stored THEN granted ELSE refused
            /\ (current_state = 4 /\ current_state' # 4) =>
                  (granted /\ join(pin_digits') = stored)
            /\ (current_state = 4 /\ current_state' = 4) => current_user' = "" ]_vars

\* C9 witness: a wrong PIN has just been refused in a session that follows an
\* earlier successful login and logout (the menu index is still on Logout).
C9_Witness ==
    /\ current_state = 4 /\ flash = "Wrong PIN"
    /\ menu_index = 2
    /\ current_user = ""

\* C10: Ok in EnterID joins the two digits into an identifier.  If it is a key
\* of the user set the session goes to EnterPIN with PIN digits 0000 and PIN
\* cursor 0; otherwise it stays in EnterID, the confirm changes neither the ID
\* digits nor the cursor, and nobody is authenticated.  Whatever else is
\* pressed in the same pass, EnterID is left only for EnterPIN, with digits
\* that spell a key of the user set.
C10_IdConfirm ==
    [][ LET accepted == /\ current_state' = 4
                        /\ temp_user_id' = join(id_digits')
                        /\ pin_digits' = <<"0", "0", "0", "0">>
                        /\ pin_pos' = 0
                        /\ current_user' = ""
            rejected == /\ current_state' = 3
                        /\ current_user' = ""
                        /\ UNCHANGED <<temp_user_id, pin_digits, pin_pos>>
        IN  /\ EnterID({"ok"}) =>
                  /\ id_digits' = id_digits /\ id_pos' = id_pos
                  /\ IF join(id_digits) \in {"01", "02"} THEN accepted ELSE rejected
            /\ (current_state = 3 /\ current_state' # 3) =>
                  (accepted /\ join(id_digits') \in {"01", "02"})
            /\ (current_state = 3 /\ current_state' = 3) => rejected ]_vars

\* C10 witness: an identifier that is in no user record ("09") has just been
\* refused, after an earlier session logged in and out.
C10_Witness ==
    /\ current_state = 3 /\ flash = "Invalid ID"
    /\ id_digits = <<"0", "9">>
    /\ menu_index = 2

\* C11: in BookConfirm, Ok with Yes selected runs exactly the ledger operation
\* of the pending mode (Issue for Issue, Return for Return) for the
\* authenticated user and the selected book, keeps its fine as the session's
\* fine (0 for every Issue and every failed Return) and goes to Result; Ok with
\* No selected goes to Menu and runs no ledger operation.  A pass without Ok
\* stays in BookConfirm and runs none either.
C11_BookConfirmOk ==
    [][ current_state = 5 =>
          LET yes == confirm_index' = 0
              op == IF current_mode = "ISSUE" THEN "issue" ELSE "return"
              r == IF current_mode = "ISSUE"
                   THEN issue_book_logic(current_user, selected_isbn)
                   ELSE return_book_logic(current_user, selected_isbn)
              ran == /\ books_db' = r.books
                     /\ borrowings' = r.borrowings
                     /\ last_call'.op = op
                     /\ last_call'.user_id = current_user
                     /\ last_call'.isbn = selected_isbn
                     /\ last_call'.ret = r.ret
                     /\ current_fine' = r.ret.f
                     /\ (current_mode = "ISSUE" \/ r.ret.h # "RETURNED") => current_fine' = 0
              idle == UNCHANGED <<books_db, borrowings, last_call, current_fine>>
          IN  /\ current_mode \in {"ISSUE", "RETURN"}
              /\ current_user \in DOMAIN users_db
              /\ selected_isbn \in DOMAIN books_db
              /\ \A B \in Presses :
                    ("ok" \in B /\ BookConfirm(B)) =>
                        IF yes THEN ran /\ current_state' = 2
                        ELSE idle /\ current_state' = 0
              /\ current_state' = 2 => yes /\ ran
              /\ current_state' = 0 => ~yes /\ idle
              /\ current_state' = 5 => idle
              /\ current_state' \in {2, 0, 5} ]_vars

\* C11 witness: a Return confirmed with Yes has just succeeded with a fine, and
\* the session is in Result with that fine.
C11_Witness ==
    /\ current_state = 2 /\ confirm_index = 0
    /\ current_mode = "RETURN"
    /\ last_call.op = "return" /\ last_call.ret.h = "RETURNED"
    /\ current_fine = last_call.ret.f /\ current_fine > 0

\* The payment tiles in qr_group.
Tiles == {i \in 1..Len(qr_group) : qr_group[i].kind = "tile"}

\* C12: from Result, Ok goes to QrPay exactly when the pending mode is Return
\* and the session's fine is > 0, otherwise to Menu; from QrPay, Ok goes to
\* Menu and drops the QR tile.  So qr_group holds a payment tile (exactly one,
\* for the session's fine) exactly while the session is in QrPay, and QrPay is
\* entered only from the Result of a successful Return with a positive fine.
C12_ResultAndQrPay ==
    /\ [](/\ (current_state = 7) <=> (Tiles # {})
          /\ Cardinality(Tiles) <= 1
          /\ \A i \in Tiles : qr_group[i].am = current_fine)
    /\ [][ /\ current_state = 2 =>
                /\ \A B \in Presses :
                      ("ok" \in B /\ Result(B)) =>
                          current_state' = IF current_mode = "RETURN" /\ current_fine > 0
                                           THEN 7 ELSE 0
                /\ current_state' = 7 =>
                      /\ current_mode = "RETURN" /\ current_fine > 0
                      /\ last_call.op = "return" /\ last_call.ret.h = "RETURNED"
                      /\ last_call.user_id = current_user
                      /\ last_call.ret.f = current_fine
                /\ current_state' = 0 => ~(current_mode = "RETURN" /\ current_fine > 0)
                /\ current_state' \in {2, 7, 0}
           /\ current_state = 7 =>
                /\ \A B \in Presses : ("ok" \in B /\ QrPay(B)) => current_state' = 0
                /\ current_state' \in {7, 0}
           /\ (current_state' = 7 /\ current_state # 7) => current_state = 2 ]_vars

\* C12 witness: the fine of a successful Return has been shown as a QR tile and
\* dismissed with Ok: the session is back in Menu with no tile left.
C12_Witness ==
    /\ current_state = 0 /\ Tiles = {}
    /\ current_mode = "RETURN" /\ current_fine > 0
    /\ last_call.ret.h = "RETURNED"
    /\ borrowings = borrowings0

\* What a frame shows the scan: the payload of the last code decoded in it,
\* none if capturing it fails or it holds no code.
Shown(frame) == IF frame.raises \/ frame.rows = <<>> THEN <<>>
                ELSE <<frame.rows[Len(frame.rows)]>>
IsBookId(payload) == payload.utf8 /\ payload.raw \in DOMAIN books_db0
\* A payload with no content does not end the scan: it counts as no code seen.
IsBlank(payload) == payload.utf8 /\ payload.raw = ""

\* C13: when the scan of state Scan completes, a payload equal to a catalog
\* book identifier leads to BookConfirm with that identifier selected; any
\* other payload leads to Menu with the selected book and the ledger
\* unchanged; no payload (the capture fails, or Left is read with no code seen)
\* leads to ManualSelect with list index 0, and so does a camera that failed
\* to initialise, without any capture.  With no code seen and Left not read
\* the scan goes on.
C13_ScanOutcome ==
    [][ current_state = 6 =>
          LET manual == /\ current_state' = 1 /\ book_index' = 0
                        /\ UNCHANGED <<books_db, borrowings, selected_isbn>>
          IN  /\ cam = "None" => manual
              /\ \A frame \in Frames :
                    Scan(frame) =>
                       LET seen == Shown(frame) IN
                       IF frame.raises THEN manual
                       ELSE IF seen # <<>> /\ IsBookId(seen[1])
                       THEN /\ current_state' = 5
                            /\ selected_isbn' = seen[1].raw
                            /\ UNCHANGED <<books_db, borrowings>>
                       ELSE IF seen # <<>> /\ ~IsBlank(seen[1])
                       THEN /\ current_state' = 0
                            /\ UNCHANGED <<books_db, borrowings, selected_isbn>>
                       ELSE IF frame.left THEN manual
                       ELSE UNCHANGED vars
              /\ current_state' \in {5, 0, 1} ]_vars

\* C13 witness: a scan has just ended on the code of "978-3" (the manual list
\* was not used: its index is where the boot left it).
C13_Witness ==
    /\ current_state = 5 /\ selected_isbn = "978-3"
    /\ book_index = 0 /\ cam = "ok"
    /\ current_user = "01"

\* C14: in Menu, Up and Down cycle the menu index over the 3 options, wrapping
\* both ways; Ok with the index on Logout (2) clears the authenticated user and
\* goes to EnterID; Ok on index 0 sets the mode to Issue, on index 1 to Return,
\* and goes to Scan with the authenticated user unchanged.
C14_Menu ==
    [][ current_state = 0 =>
          /\ \A B \in Presses :
                Menu(B) =>
                   LET i1 == IF "up" \in B
                             THEN (IF menu_index = 0 THEN 2 ELSE menu_index - 1)
                             ELSE menu_index
                       i2 == IF "down" \in B
                             THEN (IF i1 = 2 THEN 0 ELSE i1 + 1)
                             ELSE i1
                   IN  /\ menu_index' = i2
                       /\ "ok" \notin B =>
                             UNCHANGED <<current_state, current_user, current_mode>>
                       /\ ("ok" \in B /\ i2 = 2) =>
                             current_user' = "" /\ current_state' = 3
                       /\ ("ok" \in B /\ i2 # 2) =>
                             /\ current_mode' = (IF i2 = 0 THEN "ISSUE" ELSE "RETURN")
                             /\ current_state' = 6
                             /\ current_user' = current_user
          /\ menu_index \in 0..2 /\ menu_index' \in 0..2
          /\ current_user \in DOMAIN users_db
          /\ current_state' = 3 => menu_index' = 2 /\ current_user' = ""
          /\ current_state' = 6 =>
                /\ menu_index' \in {0, 1}
                /\ current_mode' = (IF menu_index' = 0 THEN "ISSUE" ELSE "RETURN")
                /\ current_user' = current_user ]_vars

\* C14 witness: the patron has logged out from the menu while holding a book.
C14_Witness ==
    /\ current_state = 3 /\ current_user = ""
    /\ menu_index = 2 /\ flash = ""
    /\ borrowings # borrowings0

\* C15: the ledger (every book's available count, every user's borrowings)
\* changes only in the pass of BookConfirm in which Ok is read with Yes
\* selected; every other pass, on whatever screen, leaves it as it is.
C15_LedgerOnlyInBookConfirm ==
    [][ (books_db' # books_db \/ borrowings' # borrowings \/ last_call' # last_call) =>
            /\ current_state = 5 /\ current_state' = 2
            /\ confirm_index' = 0
            /\ \E B \in Presses : "ok" \in B /\ BookConfirm(B) ]_vars

\* C15 witness: a patron holding a book has logged out and in again and still
\* holds it.
C15_Witness ==
    /\ current_state = 0 /\ flash = "Hello"
    /\ current_user \in DOMAIN borrowings
    /\ borrowings[current_user] # <<>>

\* C17: a scanned payload that is not valid UTF-8 ends the scan as a payload
\* that is present but matches no book: the session goes to Menu with the
\* "Book Not In Database" message, the ledger and the selected book unchanged.
C17_BadPayload ==
    [][ current_state = 6 =>
          \A frame \in Frames :
             (Scan(frame) /\ Shown(frame) # <<>> /\ ~Shown(frame)[1].utf8) =>
                 /\ current_state' = 0
                 /\ flash' = "Book Not In Database"
                 /\ UNCHANGED <<books_db, borrowings, last_call, selected_isbn>> ]_vars

\* C17 witness: a malformed code has just been scanned and turned down.
C17_Witness ==
    /\ current_state = 0 /\ flash = "Book Not In Database"
    /\ current_user = "01"

\* The latest ledger call failed: it returned neither SUCCESS! nor RETURNED.
CallFailed == last_call.ret.h \in {"ERROR", "OOPS!"}

\* C16: the session starts in EnterID and never gets stuck: in every reachable
\* state some pass of the loop changes the program's state, and on every
\* screen after the login some pass leaves the screen.  After an error the
\* loop goes on from an interactive screen: an unknown ID leaves the session
\* in EnterID, a wrong PIN in EnterPIN, an unrecognised payload in Menu, a
\* camera or capture failure in ManualSelect, and a refused Issue or Return
\* is shown in Result, from which Ok leads to Menu.
C16_NoTerminalState ==
    /\ current_state = 3
    /\ [](/\ current_state \in {3, 4, 0, 6, 1, 5, 2, 7}
          /\ ENABLED <<NextKiosk>>_vars
          /\ current_state \notin {3, 4} =>
                ENABLED (NextKiosk /\ current_state' # current_state)
          /\ (current_state = 2 /\ CallFailed) =>
                ENABLED (NextKiosk /\ current_state' = 0))
    /\ [][ /\ flash' = "Invalid ID" => current_state' = 3
           /\ flash' = "Wrong PIN" => current_state' = 4
           /\ flash' = "Book Not In Database" => current_state' = 0
           /\ flash' = "Camera Failed!" => current_state' = 1
           /\ (current_state = 6 /\ cam = "None") => current_state' = 1
           /\ current_state = 6 =>
                 \A frame \in Frames :
                    (Scan(frame) /\ frame.raises) => current_state' = 1
           /\ (current_state = 5 /\ current_state' = 2 /\ CallFailed') =>
                 UNCHANGED <<books_db, borrowings>>
           /\ (current_state = 2 /\ CallFailed /\ current_state' # 2) =>
                 current_state' = 0 ]_vars

\* C16 witness: an Issue has been refused for want of copies, the patron has
\* acknowledged it, and the session is back in Menu.
C16_Witness ==
    /\ current_state = 0
    /\ last_call.op = "issue" /\ last_call.ret.h = "OOPS!"
    /\ current_mode = "ISSUE"

\* The digit after and before a digit, round the dial.
DigitUp ==
    "0" :> "1" @@ "1" :> "2" @@ "2" :> "3" @@ "3" :> "4" @@ "4" :> "5" @@
    "5" :> "6" @@ "6" :> "7" @@ "7" :> "8" @@ "8" :> "9" @@ "9" :> "0"
DigitDown ==
    "0" :> "9" @@ "1" :> "0" @@ "2" :> "1" @@ "3" :> "2" @@ "4" :> "3" @@
    "5" :> "4" @@ "6" :> "5" @@ "7" :> "6" @@ "8" :> "7" @@ "9" :> "8"

\* A pass that reads the arrows of B, and not Ok, on a field of digits with
\* its cursor: one arrow alone does exactly its move; whatever is read, the
\* cursor moves by at most one place and only the digit under it turns, by at
\* most one step.
ArrowsOn(left, right, up, down, digits, pos, last) ==
    LET digits1 == digits'
        pos1 == pos'
    IN  /\ left => (pos1 = (IF pos = 0 THEN 0 ELSE pos - 1) /\ digits1 = digits)
        /\ right => (pos1 = (IF pos = last THEN last ELSE pos + 1) /\ digits1 = digits)
        /\ up => (pos1 = pos /\ digits1 = [digits EXCEPT ![pos + 1] = DigitUp[@]])
        /\ down => (pos1 = pos /\ digits1 = [digits EXCEPT ![pos + 1] = DigitDown[@]])
        /\ pos1 \in {pos - 1, pos, pos + 1}
        /\ \A i \in 1..(last + 1) :
              \/ digits1[i] = digits[i]
              \/ /\ i = pos1 + 1
                 /\ digits1[i] \in {DigitUp[digits[i]], DigitDown[digits[i]]}

\* C18: in EnterID and EnterPIN, Left and Right move the cursor by one place
\* and stop at the ends of the field (the ID cursor stays in 0..1, the PIN
\* cursor in 0..3, neither wraps); Up and Down turn only the digit under the
\* cursor, by +1 and -1 modulo 10 (9 to 0, 0 to 9); every digit stays one of
\* 0..9 and the digits not under the cursor stay as they are.
C18_CursorsAndDigits ==
    /\ [](/\ id_pos \in 0..1 /\ pin_pos \in 0..3
          /\ Len(id_digits) = 2 /\ Len(pin_digits) = 4
          /\ \A i \in 1..2 : id_digits[i] \in DOMAIN DigitUp
          /\ \A i \in 1..4 : pin_digits[i] \in DOMAIN DigitUp)
    /\ [][ /\ current_state = 3 =>
                ArrowsOn(EnterID({"left"}), EnterID({"right"}),
                         EnterID({"up"}), EnterID({"down"}),
                         id_digits, id_pos, 1)
           /\ (current_state = 4 /\ flash' # "Wrong PIN") =>
                ArrowsOn(EnterPIN({"left"}), EnterPIN({"right"}),
                         EnterPIN({"up"}), EnterPIN({"down"}),
                         pin_digits, pin_pos, 3) ]_vars

\* C18 witness: on the PIN screen the cursor is at the right end and the digit
\* under it is 9, the others 0.
C18_Witness ==
    /\ current_state = 4
    /\ pin_pos = 3 /\ pin_digits = <<"0", "0", "0", "9">>
    /\ id_pos = 1

\* The pass of the main loop that reads the buttons of B as pressed.
Tick(B) ==
    \/ EnterID(B) \/ EnterPIN(B) \/ Menu(B) \/ ManualSelect(B)
    \/ BookConfirm(B) \/ Result(B) \/ QrPay(B)

\* C20: each pass of the control loop advances the session by at most one
\* step: whatever combination of buttons it reads, it assigns the state tag at
\* most once, and it ends in the target of one row of the transition table; a
\* pass in ManualSelect that reads Left ends in Menu.
C20_OneStepPerTick ==
    [][ \A B \in Presses :
           Tick(B) =>
              /\ Len(state_writes(B)) <= 1
              /\ (current_state = 1 /\ "left" \in B) => current_state' = 0 ]_vars

\* C21: the running scan loop ends with a pass exactly when the pass decodes
\* a non-empty payload, reads Left as pressed, or fails to capture its frame;
\* a pass that meets none of them changes nothing, and while the session is in
\* Scan no pass of the button-driven states can run, so Up, Down, Right and Ok
\* have no effect.  Provided one of the three events eventually occurs, the
\* session eventually leaves Scan, for BookConfirm, Menu or ManualSelect;
\* nothing else ends the loop: a pass that goes on is always possible.
C21_ScanLoopEnds ==
    /\ [][ (current_state = 6 /\ cam # "None") =>
              /\ current_state' \in {6, 5, 0, 1}
              /\ \E frame \in Frames : Scan(frame) ]_vars
    /\ [](current_state = 6 =>
              /\ \A B \in Presses : ~ENABLED Tick(B)
              /\ cam # "None" =>
                    \A frame \in Frames :
                       LET event == \/ frame.raises
                                    \/ Shown(frame) # <<>> /\ ~IsBlank(Shown(frame)[1])
                                    \/ frame.left
                       IN  IF event
                           THEN /\ ENABLED (Scan(frame) /\ current_state' \in {5, 0, 1})
                                /\ ~ENABLED (Scan(frame) /\ current_state' = 6)
                           ELSE /\ ENABLED (Scan(frame) /\ UNCHANGED vars)
                                /\ ~ENABLED (Scan(frame) /\ ~UNCHANGED vars))
    /\ (current_state = 6) ~> (current_state \in {5, 0, 1})

\* C21 witness: with a working camera, a scan has ended without a payload and
\* the session is in ManualSelect.
C21_Witness ==
    /\ current_state = 1 /\ cam = "ok"
    /\ book_index = 0 /\ flash = ""
    /\ current_mode = "RETURN"

\* The active borrowings of book isbn, all users together.
Out(isbn) ==
    LET F[S \in SUBSET DOMAIN borrowings] ==
            IF S = {} THEN 0
            ELSE LET u == CHOOSE x \in S : TRUE
                 IN  Count(borrowings[u], isbn) + F[S \ {u}]
    IN  F[DOMAIN borrowings]

\* C22: conservation of copies: for every book, the available count plus the
\* number of active borrowings of the book, all users together, equals the
\* available count the book was provisioned with; so the available count
\* never exceeds that value, and every borrowing is of a book of the catalog.
C22_CopiesConserved ==
    /\ DOMAIN books_db = DOMAIN books_db0
    /\ \A isbn \in DOMAIN books_db0 :
          /\ books_db[isbn].available + Out(isbn) = books_db0[isbn].available
          /\ books_db[isbn].available <= books_db0[isbn].available
    /\ \A user_id \in DOMAIN borrowings :
          \A i \in 1..Len(borrowings[user_id]) :
             borrowings[user_id][i].isbn \in DOMAIN books_db0

\* C22 witness: two users hold a book each, and a copy that was out has come
\* back.
C22_Witness ==
    /\ Cardinality(DOMAIN borrowings) = 2
    /\ last_call.op = "return" /\ last_call.ret.h = "RETURNED"

\* The states after the login: Menu, Scan, ManualSelect, BookConfirm, Result,
\* QrPay.
PostLogin == {0, 6, 1, 5, 2, 7}

\* C23: the authenticated user is non-empty exactly in the states after the
\* login, and is then a key of the user set whose stored PIN is the one the
\* latest EnterPIN confirm matched (the PIN digits still spell it, for the
\* identifier confirmed in EnterID); in EnterID and EnterPIN nobody is
\* authenticated; from EnterPIN the session goes nowhere but to Menu, on the
\* right PIN; and every ledger operation is invoked for the authenticated
\* user, who is a key of the user set.
C23_AuthGate ==
    /\ [](/\ (current_user # "") <=> (current_state \in PostLogin)
          /\ current_state \in PostLogin =>
                /\ current_user \in {"01", "02"}
                /\ current_user = temp_user_id
                /\ join(pin_digits) = users_db[current_user].password
          /\ current_state \in {3, 4} => current_user = "")
    /\ [][ /\ current_state = 4 =>
                /\ current_state' \in {4, 0}
                /\ current_state' = 0 =>
                      /\ join(pin_digits') = users_db[temp_user_id].password
                      /\ current_user' = temp_user_id
                /\ flash' = "Wrong PIN" => current_state' = 4 /\ current_user' = ""
           /\ (last_call' # last_call \/ books_db' # books_db
                  \/ borrowings' # borrowings) =>
                /\ current_user \in {"01", "02"}
                /\ last_call'.user_id = current_user
                /\ current_user' = current_user ]_vars

\* C23 witness: a ledger operation has just been run for the patron who is
\* logged in.
C23_Witness ==
    /\ current_state = 2
    /\ current_user = "01" /\ last_call.user_id = "01"
    /\ last_call.op = "issue" /\ last_call.ret.h = "SUCCESS!"

====
